---- MODULE Spec2Model ----
(***************************************************************************)
(* Diagnostics bridge of the Astro language server.                        *)
(*                                                                         *)
(*   DiagnosticsProviderImpl.getDiagnostics   (DiagnosticsProvider.ts)     *)
(*   astro2tsx default export                 (astro2tsx.ts)               *)
(*                                                                         *)
(* getDiagnostics is an async method with two suspension points (the       *)
(* awaits on getTypeScriptDoc and tsDoc.getFragment); each synchronous     *)
(* segment between them is one action.                                     *)
(***************************************************************************)
EXTENDS Integers, Sequences, FiniteSets, TLC

VARIABLES
    pc,                     \* position of the getDiagnostics request
    cancellationRequested,  \* state of the CancellationToken handed to the request
    earlyReturn,            \* which return statement produced `result`
    tsDoc,                  \* snapshot returned by getTypeScriptDoc
    program,                \* engine state for the virtual file: syntax tree and diagnostics
    calls,                  \* engine methods invoked by this request
    scriptBoundaries,       \* boundaries.script of getTagBoundaries
    markdownBoundaries,     \* boundaries.markdown of getTagBoundaries
    diagnostics,            \* the concatenated ts.Diagnostic[] of line 78
    fragment,               \* value of `await tsDoc.getFragment()`
    mapped,                 \* the list handed to the final filter (after mapRange)
    kept,                   \* the list handed to enhanceIfNecessary
    result,                 \* the Diagnostic[] the promise resolves with
    version,                \* version of the document the language service host holds
    derivedFrom,            \* version each artefact of the request was computed from
    fnIn,                   \* argument of a function applied on its own
    fnOut,                  \* its result
    fnDone                  \* whether it has been applied

vars == << pc, cancellationRequested, earlyReturn, tsDoc, program, calls,
           scriptBoundaries, markdownBoundaries, diagnostics, fragment,
           mapped, kept, result, version, derivedFrom, fnIn, fnOut, fnDone >>

pipelineVars == << pc, cancellationRequested, earlyReturn, tsDoc, program, calls,
                   scriptBoundaries, markdownBoundaries, diagnostics, fragment,
                   mapped, kept, result, version, derivedFrom >>

fnVars == << fnIn, fnOut, fnDone >>

-----------------------------------------------------------------------------
(* Bounds of the model *)

\* Number of lines of the virtual document.
NumLines == 3

\* Characters per line of the virtual document.
LineWidth == 2

\* Largest number of diagnostics the engine reports for one request (all three sets).
MaxDiags == 2

\* Number of versions the document goes through while one request runs.
MaxVersion == 2

-----------------------------------------------------------------------------
(* Values *)

\* `undefined` / `null` of an optional number or object
Null == -1

VLen == NumLines * LineWidth

Lines == 0 .. (NumLines - 1)

Offsets == 0 .. (VLen - 1)

-----------------------------------------------------------------------------
(* The virtual document and its syntax tree *)

\* tsDoc.positionAt: offset -> Position, clamped to the text
positionAt(offset) ==
    IF offset >= VLen
    THEN [line |-> NumLines - 1, character |-> LineWidth]
    ELSE IF offset < 0
    THEN [line |-> 0, character |-> 0]
    ELSE [line |-> offset \div LineWidth, character |-> offset % LineWidth]

\* ts.getPositionOfLineAndCharacter(sourceFile, line, character): lineStarts[line] + character
getPositionOfLineAndCharacter(line, character) == line * LineWidth + character

\* The synthesized default export is the last line of every virtual document
\* (astro2tsx appends EOL + addProps(...)).
GeneratedStart == (NumLines - 1) * LineWidth

\* isInGeneratedCode(text, start, end): the range lies inside transpiler-synthesized text
isInGeneratedCode(start, end) == start >= GeneratedStart /\ end <= VLen

Node(kind, tagName, s, e) == [kind |-> kind, tagName |-> tagName, start |-> s, end |-> e]

\* Syntax trees of the virtual file, as the pre-order list of their nodes (the
\* order in which findScript visits them).
TreeSiblings ==
    << Node("JsxElement", "script", 0, 2),
       Node("JsxSelfClosingElement", "script", 1, 2),
       Node("JsxElement", "Markdown", 2, 4) >>

TreeNested ==
    << Node("JsxElement", "div", 0, 4),
       Node("JsxElement", "Markdown", 0, 3),
       Node("JsxExpression", "", 1, 2),
       Node("JsxElement", "script", 1, 3) >>

\* program?.getSourceFile(path): a source file, or undefined
SourceFile(nodes) == [defined |-> TRUE, nodes |-> nodes]

NoSourceFile == [defined |-> FALSE, nodes |-> <<>>]

SourceFiles == { NoSourceFile, SourceFile(TreeSiblings), SourceFile(TreeNested) }

-----------------------------------------------------------------------------
(* Diagnostics reported by the engine *)

\* A ts.Diagnostic; `id` is the identity of the object (its place in the
\* concatenation syntactic ++ suggestion ++ semantic).
RawDiagnostic(code, start) ==
    [ code |-> code, start |-> start, length |-> IF start = Null THEN Null ELSE 1,
      category |-> "Error", messageText |-> <<"msg">>,
      reportsUnnecessary |-> FALSE, reportsDeprecated |-> FALSE, id |-> 0 ]

\* Codes the final filter drops wherever they are
DroppedCodes == { 17001, 7016, 2792, 2657, 17004, 6142, 2691, 1005, 2732 }

\* Codes enhanceIfNecessary rewrites
EnhancedCodes == { 2786, 2607, 1184 }

Codes == DroppedCodes \cup EnhancedCodes \cup { 1382, 2322 }

\* Diagnostics of every code at one place of the first line
CodeDiags == { RawDiagnostic(c, 1) : c \in Codes }

\* Diagnostics of code 1382 at every place of the document, and without a place
PlaceDiags == { RawDiagnostic(1382, s) : s \in Offsets \cup { Null } }

RECURSIVE SeqsUpTo(_, _)
\* The sequences over S of length at most n
SeqsUpTo(S, n) ==
    IF n = 0 THEN { <<>> }
    ELSE LET shorter == SeqsUpTo(S, n - 1)
         IN  shorter \cup { Append(q, x) : q \in { r \in shorter : Len(r) = n - 1 }, x \in S }

\* The engine's three answers for one program: at most MaxDiags diagnostics in all
Reports(D) ==
    { [ syntactic |-> SubSeq(q, 1, i), suggestion |-> SubSeq(q, i + 1, j),
        semantic |-> SubSeq(q, j + 1, Len(q)) ] :
        <<q, i, j>> \in { t \in SeqsUpTo(D, MaxDiags) \X (0 .. MaxDiags) \X (0 .. MaxDiags) :
                            t[2] <= t[3] /\ t[3] <= Len(t[1]) } }

\* Gives every diagnostic of a list its identity, counting from `base`
Identify(list, base) == [ i \in 1 .. Len(list) |-> [ list[i] EXCEPT !.id = base + i ] ]

Programs(D) ==
    { [ sourceFile |-> sf,
        syntactic |-> Identify(r.syntactic, 0),
        suggestion |-> Identify(r.suggestion, Len(r.syntactic)),
        semantic |-> Identify(r.semantic, Len(r.syntactic) + Len(r.suggestion)) ] :
        sf \in SourceFiles, r \in Reports(D) }

-----------------------------------------------------------------------------
(* Helpers of DiagnosticsProvider.ts *)

\* getTagBoundaries: the [start, end] of every JsxElement named script / Markdown,
\* in the order findScript meets them; empty without a source file
IsScriptElement(node) == node.kind = "JsxElement" /\ node.tagName = "script"

IsMarkdownElement(node) == node.kind = "JsxElement" /\ node.tagName = "Markdown"

Boundary(node) == << node.start, node.end >>

getTagBoundaries(sourceFile) ==
    IF ~sourceFile.defined
    THEN [ script |-> <<>>, markdown |-> <<>> ]
    ELSE LET scripts == SelectSeq(sourceFile.nodes, IsScriptElement)
             markdowns == SelectSeq(sourceFile.nodes, IsMarkdownElement)
         IN  [ script |-> [ i \in 1 .. Len(scripts) |-> Boundary(scripts[i]) ],
               markdown |-> [ i \in 1 .. Len(markdowns) |-> Boundary(markdowns[i]) ] ]

\* isWithinBoundaries with the lower bound off by one
isWithinBoundariesOffByOne(boundaries, start) ==
    \E i \in 1 .. Len(boundaries) : start > boundaries[i][1] + 1 /\ start < boundaries[i][2]

\* isWithinBoundaries
isWithinBoundaries(boundaries, start) ==
    \E i \in 1 .. Len(boundaries) : start > boundaries[i][1] /\ start < boundaries[i][2]

\* diagnosticIsWithinBoundaries, for a ts.Diagnostic ('start' in diagnostic)
rawIsWithinBoundaries(boundaries, diagnostic) ==
    IF diagnostic.start = Null THEN FALSE
    ELSE isWithinBoundaries(boundaries, diagnostic.start)

\* diagnosticIsWithinBoundaries, for a mapped Diagnostic (no 'start' field): the
\* start of its range is looked up in the source file of the virtual document
mappedIsWithinBoundaries(sourceFile, boundaries, diagnostic) ==
    IF ~sourceFile.defined THEN FALSE
    ELSE isWithinBoundaries(boundaries,
            getPositionOfLineAndCharacter(diagnostic.range.start.line,
                                          diagnostic.range.start.character))

\* isNoWithinScript
isNoWithinScript(boundaries, diagnostic) == ~rawIsWithinBoundaries(boundaries, diagnostic)

\* isNotGenerated
isNotGenerated(diagnostic) ==
    IF diagnostic.start = Null \/ diagnostic.length = Null THEN TRUE
    ELSE ~isInGeneratedCode(diagnostic.start, diagnostic.start + diagnostic.length)

\* getDiagnosticTag
getDiagnosticTag(diagnostic) ==
    (IF diagnostic.reportsUnnecessary THEN <<"Unnecessary">> ELSE <<>>)
    \o (IF diagnostic.reportsDeprecated THEN <<"Deprecated">> ELSE <<>>)

\* convertRange (utils): positions of start and start + length, 0 for a missing one
convertRange(diagnostic) ==
    LET s == IF diagnostic.start = Null THEN 0 ELSE diagnostic.start
        n == IF diagnostic.length = Null THEN 0 ELSE diagnostic.length
    IN  [ start |-> positionAt(s), end |-> positionAt(s + n) ]

\* mapSeverity (utils)
mapSeverity(category) ==
    CASE category = "Error" -> "Error"
      [] category = "Warning" -> "Warning"
      [] category = "Suggestion" -> "Hint"
      [] OTHER -> "Information"

\* ts.flattenDiagnosticMessageText(messageText, '\n'): the text of a plain message
flattenDiagnosticMessageText(messageText) == messageText

\* The object literal of lines 90-97
toDiagnostic(isTypescript, diagnostic) ==
    [ range |-> convertRange(diagnostic),
      severity |-> mapSeverity(diagnostic.category),
      source |-> IF isTypescript THEN "ts" ELSE "js",
      message |-> flattenDiagnosticMessageText(diagnostic.messageText),
      code |-> diagnostic.code,
      tags |-> getDiagnosticTag(diagnostic),
      origin |-> diagnostic.id ]

\* A fragment maps a position of the virtual document to one of the original:
\* `shift` lines were put before it by the transformation, and positions on the
\* line `lost` (if any) have no original, which the mapper reports as line -1.
Fragments ==
    { [ shift |-> d, lost |-> l ] : d \in { 0, 1 }, l \in Lines \cup { Null } }

getOriginalPosition(frag, pos) ==
    IF pos.line = frag.lost \/ pos.line - frag.shift < 0
    THEN [ line |-> -1, character |-> -1 ]
    ELSE [ line |-> pos.line - frag.shift, character |-> pos.character ]

\* mapRangeToOriginal (core/documents)
mapRangeToOriginal(frag, range) ==
    [ start |-> getOriginalPosition(frag, range.start),
      end |-> getOriginalPosition(frag, range.end) ]

\* mapRange
mapRange(frag, diagnostic) ==
    [ diagnostic EXCEPT !.range = mapRangeToOriginal(frag, diagnostic.range) ]

\* hasNoNegativeLines looking at the start of the range only
hasNoNegativeStartLine(diagnostic) == diagnostic.range.start.line >= 0

\* hasNoNegativeLines
hasNoNegativeLines(diagnostic) ==
    diagnostic.range.start.line >= 0 /\ diagnostic.range.end.line >= 0

isNoJsxCannotHaveMultipleAttrsError(diagnostic) == diagnostic.code # 17001

\* isNoFalsePositive()
isNoFalsePositive(diagnostic) == isNoJsxCannotHaveMultipleAttrsError(diagnostic)

isNoJSXImplicitRuntimeWarning(diagnostic) == diagnostic.code # 7016 /\ diagnostic.code # 2792

isNoJSXMustHaveOneParent(diagnostic) == diagnostic.code # 2657

isNoCantUseJSX(diagnostic) == diagnostic.code # 17004 /\ diagnostic.code # 6142

isNoCantEndWithTS(diagnostic) == diagnostic.code # 2691

\* isNoSpreadExpected testing a neighbouring code
isNoSpreadExpectedWrongCode(diagnostic) == diagnostic.code # 1003

isNoSpreadExpected(diagnostic) == diagnostic.code # 1005

isNoCantResolveJSONModule(diagnostic) == diagnostic.code # 2732

\* isNoMarkdownBlockQuoteWithinMarkdown
isNoMarkdownBlockQuoteWithinMarkdown(sourceFile, boundaries, diagnostic) ==
    IF diagnostic.code # 1382 THEN TRUE
    ELSE ~mappedIsWithinBoundaries(sourceFile, boundaries, diagnostic)

\* The predicate of the final filter (lines 99-111)
finalFilter(sourceFile, markdown, diag) ==
    /\ hasNoNegativeLines(diag)
    /\ isNoFalsePositive(diag)
    /\ isNoJSXImplicitRuntimeWarning(diag)
    /\ isNoJSXMustHaveOneParent(diag)
    /\ isNoCantUseJSX(diag)
    /\ isNoCantEndWithTS(diag)
    /\ isNoSpreadExpected(diag)
    /\ isNoCantResolveJSONModule(diag)
    /\ isNoMarkdownBlockQuoteWithinMarkdown(sourceFile, markdown, diag)

Guidance2786 ==
    "Type definitions are missing for this Svelte Component. It needs a class definition with at least the property '$$prop_def' which should contain a map of input property definitions.\nExample:\n  class ComponentName { $$prop_def: { propertyName: string; } }\nIf you are using Svelte 3.31+, use SvelteComponentTyped:\n  import type { SvelteComponentTyped } from \"svelte\";\n  class ComponentName extends SvelteComponentTyped<{propertyName: string;}> {}\n\nUnderlying error:\n"

Guidance2607 ==
    "Element does not support attributes because type definitions are missing for this Svelte Component or element cannot be used as such.\n\nUnderlying error:\n"

Guidance1184 ==
    "\nIf this is a declare statement, move it into <script context=\"module\">..</script>"

\* enhanceIfNecessary building the enhanced diagnostics anew, without their tags
enhanceIfNecessaryLosingTags(diagnostic) ==
    IF diagnostic.code = 2786
    THEN [ diagnostic EXCEPT !.message = << Guidance2786 >> \o diagnostic.message,
                             !.tags = <<>> ]
    ELSE IF diagnostic.code = 2607
    THEN [ diagnostic EXCEPT !.message = << Guidance2607 >> \o diagnostic.message,
                             !.tags = <<>> ]
    ELSE IF diagnostic.code = 1184
    THEN [ diagnostic EXCEPT !.message = diagnostic.message \o << Guidance1184 >>,
                             !.tags = <<>> ]
    ELSE diagnostic

\* enhanceIfNecessary; a message is the list of the strings concatenated into it
enhanceIfNecessary(diagnostic) ==
    IF diagnostic.code = 2786
    THEN [ diagnostic EXCEPT !.message = << Guidance2786 >> \o diagnostic.message ]
    ELSE IF diagnostic.code = 2607
    THEN [ diagnostic EXCEPT !.message = << Guidance2607 >> \o diagnostic.message ]
    ELSE IF diagnostic.code = 1184
    THEN [ diagnostic EXCEPT !.message = diagnostic.message \o << Guidance1184 >> ]
    ELSE diagnostic

-----------------------------------------------------------------------------
(* getDiagnostics *)

\* document.getFilePath(): undefined, or the directories of the path, each
\* enclosed by the separator `sep`
FilePath(sep, dirs) == [ defined |-> TRUE, sep |-> sep, dirs |-> dirs ]

NoFilePath == [ defined |-> FALSE, sep |-> "/", dirs |-> <<>> ]

FilePaths ==
    { NoFilePath,
      FilePath("/", << "proj", "src", "pages" >>),
      FilePath("/", << "proj", "node_modules", "pkg" >>),
      FilePath("/", << "proj", "src", "node_modules", "lib" >>),
      FilePath("/", << "proj", "node_modules", "pkg", "src", "node_modules" >>),
      FilePath("\\", << "proj", "node_modules", "pkg" >>),
      FilePath("\\", << "proj", "src", "node_modules" >>),
      FilePath("\\", << "proj", "src" >>) }

\* path?.includes(sep + names[1] + sep + ... + sep)
includes(path, sep, names) ==
    /\ path.defined
    /\ path.sep = sep
    /\ \E i \in 0 .. (Len(path.dirs) - Len(names)) :
          \A k \in 1 .. Len(names) : path.dirs[i + k] = names[k]

\* The condition of lines 33-41
isInNodeModules(path) ==
    /\ includes(path, "/", << "node_modules" >>) \/ includes(path, "\\", << "node_modules" >>)
    /\ ~(includes(path, "/", << "src", "node_modules" >>)
           \/ includes(path, "\\", << "src", "node_modules" >>))

\* tsDoc.parserError
NoParserError ==
    [ defined |-> FALSE, range |-> [ start |-> positionAt(0), end |-> positionAt(0) ],
      message |-> <<>>, code |-> Null ]

\* The parser reports a place of the original document, its message and its own code
ParserErrors ==
    { [ defined |-> TRUE, range |-> [ start |-> positionAt(s), end |-> positionAt(e) ],
        message |-> << "parse error" >>, code |-> Null ] :
        <<s, e>> \in { t \in Offsets \X Offsets : t[1] <= t[2] } }

ScriptKinds == { "TSX", "JSX" }

NoProgram ==
    [ sourceFile |-> NoSourceFile, syntactic |-> <<>>, suggestion |-> <<>>, semantic |-> <<>> ]

NoFragment == [ shift |-> 0, lost |-> Null ]

NoTsDoc == [ scriptKind |-> "JSX", parserError |-> NoParserError ]

\* Nothing of the request has been computed yet
NoVersions ==
    [ tsDoc |-> Null, boundaries |-> Null, diagnostics |-> Null,
      fragment |-> Null, sourceFile |-> Null ]

Init ==
    /\ pc = "idle"
    /\ cancellationRequested = FALSE
    /\ earlyReturn = "none"
    /\ tsDoc = NoTsDoc
    /\ program = NoProgram
    /\ calls = {}
    /\ scriptBoundaries = <<>>
    /\ markdownBoundaries = <<>>
    /\ diagnostics = <<>>
    /\ fragment = NoFragment
    /\ mapped = <<>>
    /\ kept = <<>>
    /\ result = <<>>
    /\ version = 1
    /\ derivedFrom = NoVersions
    /\ fnIn = <<>>
    /\ fnOut = <<>>
    /\ fnDone = FALSE

\* The client raises the cancellation token of a request that has not completed
Cancel ==
    /\ pc # "done"
    /\ ~cancellationRequested
    /\ cancellationRequested' = TRUE
    /\ UNCHANGED << pc, earlyReturn, tsDoc, program, calls, scriptBoundaries,
                    markdownBoundaries, diagnostics, fragment, mapped, kept, result >>
    /\ UNCHANGED << version, derivedFrom >>
    /\ UNCHANGED fnVars

\* Lines 33-47, on a path inside node_modules: return []
ReturnForNodeModules ==
    /\ pc = "idle"
    /\ \E path \in FilePaths : isInNodeModules(path)
    /\ pc' = "done"
    /\ earlyReturn' = "node_modules"
    /\ result' = <<>>
    /\ UNCHANGED << cancellationRequested, tsDoc, program, calls, scriptBoundaries,
                    markdownBoundaries, diagnostics, fragment, mapped, kept >>
    /\ UNCHANGED << version, derivedFrom >>
    /\ UNCHANGED fnVars

\* Lines 33-47, otherwise: call getTypeScriptDoc and wait for it
CallGetTypeScriptDoc ==
    /\ pc = "idle"
    /\ \E path \in FilePaths : ~isInNodeModules(path)
    /\ pc' = "awaitTsDoc"
    /\ calls' = calls \cup { "getTypeScriptDoc" }
    /\ UNCHANGED << cancellationRequested, earlyReturn, tsDoc, program, scriptBoundaries,
                    markdownBoundaries, diagnostics, fragment, mapped, kept, result >>
    /\ UNCHANGED << version, derivedFrom >>
    /\ UNCHANGED fnVars

\* The parser error reported with the range of the whole first line
parserErrorDiagnosticAtTop(doc) ==
    [ range |-> [ start |-> positionAt(0), end |-> positionAt(LineWidth) ],
      severity |-> "Error",
      source |-> IF doc.scriptKind = "TSX" THEN "ts" ELSE "js",
      message |-> doc.parserError.message,
      code |-> doc.parserError.code ]

\* The diagnostic of lines 52-60
parserErrorDiagnostic(doc) ==
    [ range |-> doc.parserError.range,
      severity |-> "Error",
      source |-> IF doc.scriptKind = "TSX" THEN "ts" ELSE "js",
      message |-> doc.parserError.message,
      code |-> doc.parserError.code ]

\* Lines 47-61 when the snapshot carries a parser error
ReturnParserError ==
    /\ pc = "awaitTsDoc"
    /\ \E kind \in ScriptKinds, err \in ParserErrors :
          /\ tsDoc' = [ scriptKind |-> kind, parserError |-> err ]
          /\ result' = << parserErrorDiagnostic(tsDoc') >>
    /\ pc' = "done"
    /\ earlyReturn' = "parserError"
    /\ UNCHANGED << cancellationRequested, program, calls, scriptBoundaries,
                    markdownBoundaries, diagnostics, fragment, mapped, kept >>
    /\ derivedFrom' = [ derivedFrom EXCEPT !.tsDoc = version ]
    /\ UNCHANGED version
    /\ UNCHANGED fnVars

\* The semantic diagnostics kept by the filter of lines 72-76
semanticOutsideScript(script, semantic) ==
    LET Keep(d) == isNoWithinScript(script, d) IN SelectSeq(semantic, Keep)

\* The array literal with the semantic diagnostics first
concatSemanticFirst(syntax, suggestion, semantic) == semantic \o syntax \o suggestion

\* The array literal of lines 78-82
concatDiagnostics(syntax, suggestion, semantic) == syntax \o suggestion \o semantic

\* Lines 47-84 without a parser error, the engine holding a program with
\* diagnostics from D: boundaries, the three engine calls, the script filter,
\* the concatenation, then the call of tsDoc.getFragment
AcquireFrom(D) ==
    /\ pc = "awaitTsDoc"
    /\ \E kind \in ScriptKinds, prog \in Programs(D) :
          /\ tsDoc' = [ scriptKind |-> kind, parserError |-> NoParserError ]
          /\ program' = prog
    /\ LET boundaries == getTagBoundaries(program'.sourceFile)
       IN  /\ scriptBoundaries' = boundaries.script
           /\ markdownBoundaries' = boundaries.markdown
           /\ diagnostics' = concatDiagnostics(program'.syntactic, program'.suggestion,
                                semanticOutsideScript(boundaries.script, program'.semantic))
    /\ calls' = calls \cup { "getProgram", "getSourceFile", "getSyntacticDiagnostics",
                             "getSuggestionDiagnostics", "getSemanticDiagnostics",
                             "getFragment" }
    /\ pc' = "awaitFragment"
    /\ UNCHANGED << cancellationRequested, earlyReturn, fragment, mapped, kept, result >>
    /\ derivedFrom' = [ derivedFrom EXCEPT !.tsDoc = version, !.boundaries = version,
                                        !.diagnostics = version ]
    /\ UNCHANGED version
    /\ UNCHANGED fnVars

Acquire == AcquireFrom(PlaceDiags)

AcquireCodes == AcquireFrom(CodeDiags)

\* Lines 88-98: drop what lies in generated code, convert, map to the original
mapAll(doc, frag, list) ==
    LET notGenerated == SelectSeq(list, isNotGenerated)
    IN  [ i \in 1 .. Len(notGenerated) |->
            mapRange(frag, toDiagnostic(doc.scriptKind = "TSX", notGenerated[i])) ]

\* Lines 99-111
filterAll(sourceFile, markdown, list) ==
    LET Keep(d) == finalFilter(sourceFile, markdown, d) IN SelectSeq(list, Keep)

\* Line 112
enhanceAll(list) == [ i \in 1 .. Len(list) |-> enhanceIfNecessary(list[i]) ]

\* Lines 84-112: the fragment arrives, the source file is read again, and the
\* list is filtered, converted, mapped, filtered and enhanced
Finish ==
    /\ pc = "awaitFragment"
    /\ \E frag \in Fragments : fragment' = frag
    /\ mapped' = mapAll(tsDoc, fragment', diagnostics)
    /\ kept' = filterAll(program.sourceFile, markdownBoundaries, mapped')
    /\ result' = enhanceAll(kept')
    /\ pc' = "done"
    /\ UNCHANGED << cancellationRequested, earlyReturn, tsDoc, program, calls,
                    scriptBoundaries, markdownBoundaries, diagnostics >>
    /\ derivedFrom' = [ derivedFrom EXCEPT !.fragment = derivedFrom.tsDoc,
                                        !.sourceFile = version ]
    /\ UNCHANGED version
    /\ UNCHANGED fnVars

Next ==
    \/ ReturnForNodeModules
    \/ CallGetTypeScriptDoc
    \/ ReturnParserError
    \/ Acquire
    \/ Finish

Spec == Init /\ [][Next]_vars

NextCodes ==
    \/ ReturnForNodeModules
    \/ CallGetTypeScriptDoc
    \/ ReturnParserError
    \/ AcquireCodes
    \/ Finish

SpecCodes == Init /\ [][NextCodes]_vars

\* The same request, with a client that may raise the cancellation token
NextCancel ==
    \/ Cancel
    \/ ReturnForNodeModules
    \/ CallGetTypeScriptDoc
    \/ ReturnParserError
    \/ Acquire
    \/ Finish

SpecCancel == Init /\ [][NextCancel]_vars

\* The document is edited while the request is suspended at one of its awaits.
\* The host then holds the next version and the language service answers
\* getProgram() from it (line 85 asks again; lines 68-72 are not run again, so
\* only the source file of the new program is ever read by this request).
\* The snapshot `tsDoc` is an object the request already holds: it stays as it is.
UpdateDocument ==
    /\ pc \in { "awaitTsDoc", "awaitFragment" }
    /\ version < MaxVersion
    /\ version' = version + 1
    /\ IF pc = "awaitFragment"
       THEN \E sf \in SourceFiles : program' = [ program EXCEPT !.sourceFile = sf ]
       ELSE UNCHANGED program
    /\ UNCHANGED << pc, cancellationRequested, earlyReturn, tsDoc, calls, scriptBoundaries,
                    markdownBoundaries, diagnostics, fragment, mapped, kept, result,
                    derivedFrom >>
    /\ UNCHANGED fnVars

\* The same request, with a document that may be edited at the suspension points
NextUpdate ==
    \/ UpdateDocument
    \/ ReturnForNodeModules
    \/ CallGetTypeScriptDoc
    \/ ReturnParserError
    \/ Acquire
    \/ Finish

SpecUpdate == Init /\ [][NextUpdate]_vars

-----------------------------------------------------------------------------
(* enhanceIfNecessary applied to one diagnostic *)

Positions == { positionAt(o) : o \in { 0, LineWidth + 1 } }

\* The diagnostics of the language server protocol handed to the enhancer
EnhancerInputs ==
    { [ range |-> [ start |-> p, end |-> positionAt(VLen) ],
        severity |-> sv, source |-> src, message |-> << m >>, code |-> c,
        tags |-> t, origin |-> 1 ] :
        p \in Positions,
        sv \in { "Error", "Warning", "Information", "Hint" },
        src \in { "ts", "js" },
        m \in { "Type 'A' is not assignable to type 'B'.", "';' expected." },
        c \in Codes,
        t \in { <<>>, << "Unnecessary" >>, << "Deprecated" >>,
                << "Unnecessary", "Deprecated" >> } }

InitEnhance ==
    /\ pc = "idle"
    /\ cancellationRequested = FALSE
    /\ earlyReturn = "none"
    /\ tsDoc = NoTsDoc
    /\ program = NoProgram
    /\ calls = {}
    /\ scriptBoundaries = <<>>
    /\ markdownBoundaries = <<>>
    /\ diagnostics = <<>>
    /\ fragment = NoFragment
    /\ mapped = <<>>
    /\ kept = <<>>
    /\ result = <<>>
    /\ version = 1
    /\ derivedFrom = NoVersions
    /\ fnIn \in EnhancerInputs
    /\ fnOut = <<>>
    /\ fnDone = FALSE

ApplyEnhance ==
    /\ ~fnDone
    /\ fnOut' = enhanceIfNecessary(fnIn)
    /\ fnDone' = TRUE
    /\ UNCHANGED fnIn
    /\ UNCHANGED pipelineVars

NextEnhance == ApplyEnhance

SpecEnhance == InitEnhance /\ [][NextEnhance]_vars

-----------------------------------------------------------------------------
(* astro2tsx: texts are sequences of characters *)

\* Largest number of characters between the fences of the front matter
MaxBody == 5

Fence == << "-", "-", "-" >>

\* s.substring(from, to), with 0-based offsets
substring(s, from, to) == SubSeq(s, from + 1, to)

\* s has the characters w at the 1-based index i
HasAt(s, i, w) ==
    /\ i >= 1
    /\ i + Len(w) - 1 <= Len(s)
    /\ \A k \in 1 .. Len(w) : s[i + k - 1] = w[k]

\* s.indexOf(w, from), 0-based, Null when there is none
indexOf(s, w, from) ==
    LET hits == { i \in (from + 1) .. Len(s) : HasAt(s, i, w) }
    IN  IF hits = {} THEN Null
        ELSE (CHOOSE i \in hits : \A j \in hits : i <= j) - 1

\* parseAstro(content).frontmatter: the first fence opens the front matter,
\* the next one closes it
parseFrontmatter(content) ==
    LET startOffset == indexOf(content, Fence, 0)
        endOffset == IF startOffset = Null THEN Null
                     ELSE indexOf(content, Fence, startOffset + 3)
    IN  [ state |-> IF startOffset = Null THEN "none"
                    ELSE IF endOffset = Null THEN "open" ELSE "closed",
          startOffset |-> startOffset,
          endOffset |-> endOffset ]

\* /((?!^)(?<!;)\n)(---)/ matches at the 1-based index i
matchesNewlineFence(s, i) ==
    /\ i # 1
    /\ (i > 1 => s[i - 1] # ";")
    /\ HasAt(s, i, << "\n" >> \o Fence)

\* The same pattern without the lookbehind (?<!;)
matchesNewlineFenceAnyLine(s, i) ==
    /\ i # 1
    /\ HasAt(s, i, << "\n" >> \o Fence)

RECURSIVE replaceNewlineFenceFrom(_, _)
\* .replace(/((?!^)(?<!;)\n)(---)/g, (_whole, start, _dashes) => start + ';' + '//'),
\* from the 1-based index i on
replaceNewlineFenceFrom(s, i) ==
    IF i > Len(s) THEN <<>>
    ELSE IF matchesNewlineFence(s, i)
    THEN << "\n", ";", "/", "/" >> \o replaceNewlineFenceFrom(s, i + 4)
    ELSE << s[i] >> \o replaceNewlineFenceFrom(s, i + 1)

RECURSIVE replaceNewlineFenceAnyLineFrom(_, _)
\* The first replacement with the pattern that lacks the lookbehind
replaceNewlineFenceAnyLineFrom(s, i) ==
    IF i > Len(s) THEN <<>>
    ELSE IF matchesNewlineFenceAnyLine(s, i)
    THEN << "\n", ";", "/", "/" >> \o replaceNewlineFenceAnyLineFrom(s, i + 4)
    ELSE << s[i] >> \o replaceNewlineFenceAnyLineFrom(s, i + 1)

RECURSIVE replaceFencesFrom(_, _)
\* .replace(/---/g, '///'), from the 1-based index i on
replaceFencesFrom(s, i) ==
    IF i > Len(s) THEN <<>>
    ELSE IF HasAt(s, i, Fence)
    THEN << "/", "/", "/" >> \o replaceFencesFrom(s, i + 3)
    ELSE << s[i] >> \o replaceFencesFrom(s, i + 1)

\* The first replacement, without the lookbehind
terminateLastStatementAnyLine(slice) == replaceNewlineFenceAnyLineFrom(slice, 1)

\* The first replacement of lines 35-37
terminateLastStatement(slice) == replaceNewlineFenceFrom(slice, 1)

\* The slice of the front matter (line 33)
frontmatterSlice(content, frontmatter) ==
    substring(content,
              IF frontmatter.startOffset = Null THEN 0 ELSE frontmatter.startOffset,
              (IF frontmatter.endOffset = Null THEN 0 ELSE frontmatter.endOffset) + 3)

\* frontMatterRaw of lines 30-40
frontMatterRaw(content, frontmatter) ==
    IF frontmatter.state = "closed"
    THEN replaceFencesFrom(terminateLastStatement(frontmatterSlice(content, frontmatter)), 1)
    ELSE <<>>

FrontmatterAlphabet == { "a", ";", "\n", "\r", "-" }

\* Original texts: a fence, at most MaxBody characters, a fence, and markup or nothing
FrontmatterContents ==
    { Fence \o body \o Fence \o tail :
        body \in SeqsUpTo(FrontmatterAlphabet, MaxBody),
        tail \in { <<>>, << "\n", "<", "p", "/", ">" >> } }

InitFrontmatter ==
    /\ pc = "idle"
    /\ cancellationRequested = FALSE
    /\ earlyReturn = "none"
    /\ tsDoc = NoTsDoc
    /\ program = NoProgram
    /\ calls = {}
    /\ scriptBoundaries = <<>>
    /\ markdownBoundaries = <<>>
    /\ diagnostics = <<>>
    /\ fragment = NoFragment
    /\ mapped = <<>>
    /\ kept = <<>>
    /\ result = <<>>
    /\ version = 1
    /\ derivedFrom = NoVersions
    /\ fnIn \in FrontmatterContents
    /\ fnOut = <<>>
    /\ fnDone = FALSE

ApplyFrontmatter ==
    /\ ~fnDone
    /\ fnOut' = frontMatterRaw(fnIn, parseFrontmatter(fnIn))
    /\ fnDone' = TRUE
    /\ UNCHANGED fnIn
    /\ UNCHANGED pipelineVars

NextFrontmatter == ApplyFrontmatter

SpecFrontmatter == InitFrontmatter /\ [][NextFrontmatter]_vars

-----------------------------------------------------------------------------
(* astro2tsx: closing the void elements *)

\* A tag name as its characters
NameArea == << "a", "r", "e", "a" >>
NameBase == << "b", "a", "s", "e" >>
NameBr == << "b", "r" >>
NameCol == << "c", "o", "l" >>
NameEmbed == << "e", "m", "b", "e", "d" >>
NameHr == << "h", "r" >>
NameImg == << "i", "m", "g" >>
NameInput == << "i", "n", "p", "u", "t" >>
NameLink == << "l", "i", "n", "k" >>
NameMeta == << "m", "e", "t", "a" >>
NameParam == << "p", "a", "r", "a", "m" >>
NameSource == << "s", "o", "u", "r", "c", "e" >>
NameTrack == << "t", "r", "a", "c", "k" >>
NameWbr == << "w", "b", "r" >>
NameColgroup == << "c", "o", "l", "g", "r", "o", "u", "p" >>
NameLinker == << "l", "i", "n", "k", "e", "r" >>
NameDiv == << "d", "i", "v" >>
NameA == << "a" >>

\* The alternatives of the pattern of line 59, in its order
VoidPatternNames ==
    << NameMeta, NameBase, NameBr, NameCol, NameEmbed, NameHr, NameImg, NameInput,
       NameLink, NameMeta, NameParam, NameSource, NameTrack, NameWbr >>

IsSpace(ch) == ch \in { " ", "\t", "\n", "\r", "\f" }

RECURSIVE skipSpaces(_, _)
\* The index after the \s* that starts at i
skipSpaces(s, i) == IF i <= Len(s) /\ IsSpace(s[i]) THEN skipSpaces(s, i + 1) ELSE i

\* The index of the '>' that ends the match of
\* /<(\s*(meta|base|...|wbr)([^>]*))>/ starting at i, or Null without a match
voidMatchEnd(s, i) ==
    IF ~HasAt(s, i, << "<" >>) THEN Null
    ELSE LET j == skipSpaces(s, i + 1)
             closers == { k \in j .. Len(s) : s[k] = ">" }
         IN  IF /\ \E n \in 1 .. Len(VoidPatternNames) : HasAt(s, j, VoidPatternNames[n])
                /\ closers # {}
             THEN CHOOSE c \in closers : \A d \in closers : c <= d
             ELSE Null

RECURSIVE closeVoidElementsFrom(_, _)
\* The replacement of lines 59-62, from the 1-based index i on
closeVoidElementsFrom(s, i) ==
    IF i > Len(s) THEN <<>>
    ELSE LET e == voidMatchEnd(s, i)
         IN  IF e = Null
             THEN << s[i] >> \o closeVoidElementsFrom(s, i + 1)
             ELSE LET whole == SubSeq(s, i, e)
                      inner == SubSeq(s, i + 1, e - 1)
                  IN  (IF HasAt(whole, Len(whole) - 1, << "/", ">" >>)
                       THEN whole
                       ELSE << "<" >> \o inner \o << " ", "/", ">" >>)
                      \o closeVoidElementsFrom(s, e + 1)

closeVoidElements(html) == closeVoidElementsFrom(html, 1)

\* The void elements of HTML
VoidElementNames ==
    { NameArea, NameBase, NameBr, NameCol, NameEmbed, NameHr, NameImg, NameInput,
      NameLink, NameMeta, NameParam, NameSource, NameTrack, NameWbr }

TagNames == VoidElementNames \cup { NameColgroup, NameLinker, NameDiv, NameA }

\* The text of an opening tag
TagText(tag) == << "<" >> \o tag.space \o tag.name \o tag.attrs \o << ">" >> \o tag.rest

\* One opening tag and what follows it, with the parts it was written from
MarkupInputs ==
    { [ space |-> sp, name |-> n, attrs |-> at, rest |-> r ] :
        sp \in { <<>>, << " " >> },
        n \in TagNames,
        at \in { <<>>, << " ", "x" >>, << "/" >>, << " ", "x", " ", "/" >> },
        r \in { <<>>, << "t" >>, << "<", "/", "b", "r", ">" >> } }

InitVoid ==
    /\ pc = "idle"
    /\ cancellationRequested = FALSE
    /\ earlyReturn = "none"
    /\ tsDoc = NoTsDoc
    /\ program = NoProgram
    /\ calls = {}
    /\ scriptBoundaries = <<>>
    /\ markdownBoundaries = <<>>
    /\ diagnostics = <<>>
    /\ fragment = NoFragment
    /\ mapped = <<>>
    /\ kept = <<>>
    /\ result = <<>>
    /\ version = 1
    /\ derivedFrom = NoVersions
    /\ fnIn \in MarkupInputs
    /\ fnOut = <<>>
    /\ fnDone = FALSE

ApplyCloseVoid ==
    /\ ~fnDone
    /\ fnOut' = closeVoidElements(TagText(fnIn))
    /\ fnDone' = TRUE
    /\ UNCHANGED fnIn
    /\ UNCHANGED pipelineVars

NextVoid == ApplyCloseVoid

SpecVoid == InitVoid /\ [][NextVoid]_vars

-----------------------------------------------------------------------------
(* Properties of getDiagnostics *)

Returned == pc = "done"

\* The request went through the whole pipeline (no early return)
ReturnedFromPipeline == pc = "done" /\ earlyReturn = "none"

Indices(list) == 1 .. Len(list)

\* The engine's three answers, in the order syntactic, suggestion, semantic
engineDiagnostics == program.syntactic \o program.suggestion \o program.semantic

\* The engine diagnostic with identity `id` is in the returned list
IsReturned(id) == \E i \in Indices(result) : result[i].origin = id

\* Nodes of the syntax tree of the virtual file
TreeNodes == { program.sourceFile.nodes[k] : k \in Indices(program.sourceFile.nodes) }

\* Spans of the script / Markdown elements of the syntax tree
ScriptRegions == { Boundary(n) : n \in { m \in TreeNodes : IsScriptElement(m) } }

MarkdownRegions == { Boundary(n) : n \in { m \in TreeNodes : IsMarkdownElement(m) } }

StrictlyInside(regions, s) == \E b \in regions : b[1] < s /\ s < b[2]

FromStartInside(regions, s) == \E b \in regions : b[1] <= s /\ s < b[2]

\* C1: no returned diagnostic has one of the codes 17001, 7016, 2792, 2657,
\* 17004, 6142, 2691, 1005, 2732, whatever the engine reported.
C1_NoDroppedCodes ==
    \A i \in Indices(result) : result[i].code \notin DroppedCodes

\* The engine reported a dropped code next to a diagnostic that was returned
C1_Witness ==
    /\ ReturnedFromPipeline
    /\ \E k \in Indices(engineDiagnostics) : engineDiagnostics[k].code \in DroppedCodes
    /\ result # <<>>

\* C2 as claimed: a semantic diagnostic whose start s has regionStart <= s < regionEnd
\* for a script element is not returned.
C2_AsClaimed ==
    ReturnedFromPipeline =>
        \A k \in Indices(program.semantic) :
            (program.semantic[k].start # Null
               /\ FromStartInside(ScriptRegions, program.semantic[k].start))
            => ~IsReturned(program.semantic[k].id)

\* C2 amended: a semantic diagnostic whose start s has regionStart < s < regionEnd
\* for a script element is not returned.
C2_StrictlyInsideScriptDropped ==
    ReturnedFromPipeline =>
        \A k \in Indices(program.semantic) :
            (program.semantic[k].start # Null
               /\ StrictlyInside(ScriptRegions, program.semantic[k].start))
            => ~IsReturned(program.semantic[k].id)

\* A semantic diagnostic strictly inside a script element was reported, and
\* another diagnostic was returned
C2_Witness ==
    /\ ReturnedFromPipeline
    /\ \E k \in Indices(program.semantic) :
          /\ program.semantic[k].start # Null
          /\ StrictlyInside(ScriptRegions, program.semantic[k].start)
    /\ result # <<>>

C4_AsClaimed ==
    (Returned /\ cancellationRequested) => result = <<>>

EngineLookups ==
    { "getSyntacticDiagnostics", "getSuggestionDiagnostics", "getSemanticDiagnostics",
      "getProgram", "getSourceFile" }

\* C5: with a parser error the request returns exactly one diagnostic, carrying
\* the parser's range, message and code with severity Error, and has invoked
\* none of the engine's diagnostics or syntax tree lookups.
C5_ParserErrorShortCircuits ==
    (Returned /\ earlyReturn = "parserError") =>
        /\ Len(result) = 1
        /\ result[1].range = tsDoc.parserError.range
        /\ result[1].message = tsDoc.parserError.message
        /\ result[1].code = tsDoc.parserError.code
        /\ result[1].severity = "Error"
        /\ calls \cap EngineLookups = {}

\* A parser error away from the top of the document was returned
C5_Witness ==
    /\ Returned
    /\ earlyReturn = "parserError"
    /\ tsDoc.parserError.defined
    /\ tsDoc.parserError.range.start.line > 0

\* The diagnostic that lines 90-98 make of an engine diagnostic passes the
\* filters other than rule 9
PassesOtherFilters(d) ==
    /\ isNotGenerated(d)
    /\ \E i \in Indices(mapped) :
          /\ mapped[i].origin = d.id
          /\ hasNoNegativeLines(mapped[i])
          /\ mapped[i].code \notin DroppedCodes

\* C6 as claimed: a diagnostic with code 1382 that passes every other filter is
\* dropped if and only if its place in the virtual document lies inside a
\* Markdown element, for every mapping of virtual to original places.
C6_AsClaimed ==
    ReturnedFromPipeline =>
        \A k \in Indices(diagnostics) :
            (diagnostics[k].code = 1382 /\ diagnostics[k].start # Null
               /\ PassesOtherFilters(diagnostics[k]))
            => (~IsReturned(diagnostics[k].id)
                  <=> StrictlyInside(MarkdownRegions, diagnostics[k].start))

\* C7: the returned list is the image of a subsequence of syntactic ++
\* suggestion ++ semantic: every returned diagnostic comes from one engine
\* diagnostic with the same code, and they come in the engine's order, none twice.
C7_SubsequenceOfEngineOrder ==
    ReturnedFromPipeline =>
        /\ \A i \in Indices(result) :
              /\ result[i].origin \in Indices(engineDiagnostics)
              /\ engineDiagnostics[result[i].origin].code = result[i].code
        /\ \A i, j \in Indices(result) :
              i < j => result[i].origin < result[j].origin

\* Two diagnostics of different sets and different codes were returned
C7_Witness ==
    /\ ReturnedFromPipeline
    /\ Len(result) = 2
    /\ result[1].code # result[2].code
    /\ program.syntactic # <<>>
    /\ program.semantic # <<>>

\* C11 (as claimed): under any interleaving with an update of the document at
\* the awaits on getTypeScriptDoc and tsDoc.getFragment, the script / Markdown
\* boundaries, the engine diagnostics, the fragment used by mapRange and the
\* source file used by rule 9 of a request that went through the pipeline all
\* come from one and the same version of the document.
C11_AsClaimed ==
    ReturnedFromPipeline =>
        /\ derivedFrom.diagnostics = derivedFrom.boundaries
        /\ derivedFrom.fragment = derivedFrom.boundaries
        /\ derivedFrom.sourceFile = derivedFrom.boundaries

-----------------------------------------------------------------------------
(* Properties of enhanceIfNecessary *)

GuidanceOf(code) ==
    CASE code = 2786 -> Guidance2786
      [] code = 2607 -> Guidance2607
      [] code = 1184 -> Guidance1184
      [] OTHER -> ""

\* C8: the enhancer changes the message only: for the codes 2786, 2607 and 1184
\* the message is the original one with the fixed guidance before or after it,
\* range, severity, code, source and tags being those of the input; a
\* diagnostic of any other code is returned as it is.
C8_EnhancerChangesMessageOnly ==
    fnDone =>
        /\ fnOut.range = fnIn.range
        /\ fnOut.severity = fnIn.severity
        /\ fnOut.code = fnIn.code
        /\ fnOut.source = fnIn.source
        /\ fnOut.tags = fnIn.tags
        /\ fnIn.code \in { 2786, 2607, 1184 } =>
              \/ fnOut.message = << GuidanceOf(fnIn.code) >> \o fnIn.message
              \/ fnOut.message = fnIn.message \o << GuidanceOf(fnIn.code) >>
        /\ fnIn.code \notin { 2786, 2607, 1184 } => fnOut = fnIn

\* A diagnostic of code 2786 with tags was enhanced
C8_Witness ==
    /\ fnDone
    /\ fnIn.code = 2786
    /\ fnIn.tags # <<>>
    /\ fnOut.message # fnIn.message

-----------------------------------------------------------------------------
(* Properties of the front matter replacements *)

\* The slice of the original text the replacements are applied to
OriginalSlice == frontmatterSlice(fnIn, parseFrontmatter(fnIn))

\* The 1-based indices of the line ends of a text, in increasing order
NewlineIndices(s) == { i \in 1 .. Len(s) : s[i] = "\n" }

NumLinesOf(s) == Cardinality(NewlineIndices(s)) + 1

\* The index of the k-th line end of s
NthNewline(s, k) ==
    CHOOSE i \in NewlineIndices(s) : Cardinality({ j \in NewlineIndices(s) : j <= i }) = k

SemicolonComment == << ";", "/", "/" >>

\* The character right before the k-th line feed of the slice is a ';'
LineEndsWithSemicolon(k) ==
    LET i == NthNewline(OriginalSlice, k) IN i > 1 /\ OriginalSlice[i - 1] = ";"

\* The k-th line feed of the slice ends a line that is not empty
LineIsNotEmpty(k) ==
    LET i == NthNewline(OriginalSlice, k)
    IN  i > 1 /\ OriginalSlice[i - 1] \notin { "\n", "\r" }

\* After its k-th line end the result has a ';//' where the slice has no ';'
GainsSemicolon(k) ==
    /\ HasAt(fnOut, NthNewline(fnOut, k) + 1, SemicolonComment)
    /\ ~HasAt(OriginalSlice, NthNewline(OriginalSlice, k) + 1, << ";" >>)

\* The k-th line end of the slice is the one right before the closing fence
IsBeforeClosingFence(k) ==
    NthNewline(OriginalSlice, k) + 3 = Len(OriginalSlice)

ClosedFrontmatter == parseFrontmatter(fnIn).state = "closed"

-----------------------------------------------------------------------------
(* Properties of the closing of void elements *)

EndsWithSlash(s) == Len(s) > 0 /\ s[Len(s)] = "/"

\* C10 as claimed: an opening tag gets the self-close marker exactly if its name
\* is one of area, base, br, col, embed, hr, img, input, link, meta, param,
\* source, track, wbr and it is not self-closed already; any other tag is left
\* as it is.
C10_AsClaimed ==
    fnDone =>
        fnOut = IF fnIn.name \in VoidElementNames /\ ~EndsWithSlash(fnIn.attrs)
                THEN << "<" >> \o fnIn.space \o fnIn.name \o fnIn.attrs
                     \o << " ", "/", ">" >> \o fnIn.rest
                ELSE TagText(fnIn)

====
